---- MODULE Spec2Model ----
(***************************************************************************)
(* Model of the FFS data engine: the controller (create / delete / open /  *)
(* mount / unmount), the directory tree over fixed-fanout tree nodes, the  *)
(* bitmap allocators, the file node and the write-through block cache.     *)
(*                                                                         *)
(* The on-disk sizes are scaled down so that the reachable states can be   *)
(* enumerated: a block holds BlockLen bytes instead of 512, a bitmap       *)
(* sector tracks SLOTS addresses instead of 4096, a tree node has LEN      *)
(* entries instead of 30 and a node BLOCKS data addresses instead of 10.   *)
(* A tree node then serializes into one sector.  A block is modelled by    *)
(* the value it decodes to.                                                *)
(***************************************************************************)
EXTENDS Integers, Sequences, FiniteSets, TLC

\* ------------------------------------------------------------------ bounds
BlockLen == 2        \* Block::LEN, bytes per sector (512 in the source)
BLOCKS == 2          \* Node::BLOCKS, data addresses per node (10)
LEN == 3             \* TreeNode::LEN, entries per tree node (30)
SLOTS == 5           \* Bitmap::SLOTS, addresses per bitmap sector (4096)
N_TREE == 4          \* tree nodes of the TREE region (100)
SIZE == 3            \* BlockCache SIZE, cached sectors (8)
NNames == 2          \* distinct file and directory names
MaxDepth == 2        \* components of a path
MaxOps == 4          \* controller calls in one run
MaxTreeOps == 7      \* controller calls in one run of creates and deletes only
NAME_LEN == 5        \* Name::LEN, bytes of the longest name plus one (45)
BITS == 3            \* u8::BITS, bits of a byte of a bitmap block (8)

MAX_FILE_SIZE == BLOCKS * BlockLen

\* Names are compared as strings; name n stands for the string of n equal
\* letters, so that names ascend with n, 0 for the empty name and -1 for a
\* string that still carries a separator (it sorts after "" and before
\* every name that starts with a letter or a digit).
Names == 1..NNames
EmptyName == 0
SepName == -1

\* name.len()
NameLen(name) == name

Key(name) == IF name = EmptyName THEN 0 ELSE IF name = SepName THEN 1 ELSE name + 1

\* Ordering::{Less, Equal, Greater} of a.cmp(b) on names
NameCmp(a, b) ==
    IF Key(a) < Key(b) THEN "Less" ELSE IF Key(a) = Key(b) THEN "Equal" ELSE "Greater"

\* [value; n], an array of n copies of one value
RECURSIVE Fill(_, _)
Fill(n, value) == IF n = 0 THEN <<>> ELSE Append(Fill(n - 1, value), value)

\* ------------------------------------------------------------------ entry
Entry_empty == [name |-> EmptyName, addr |-> 0, kind |-> "Dir"]

Entry_new(name, addr, kind) == [name |-> name, addr |-> addr, kind |-> kind]

is_set(e) == e.addr # 0

is_dir(e) == e.kind = "Dir"

\* ------------------------------------------------------------------ tree node
TreeNode_new == Fill(LEN, Entry_empty)

\* entries.sort_by(name): a stable sort, equal names keep their order
RECURSIVE SortInsert(_, _)
SortInsert(sorted, e) ==
    IF sorted = <<>> THEN <<e>>
    ELSE IF NameCmp(sorted[Len(sorted)].name, e.name) = "Greater"
         THEN Append(SortInsert(SubSeq(sorted, 1, Len(sorted) - 1), e), sorted[Len(sorted)])
         ELSE Append(sorted, e)

RECURSIVE sort_by_name(_)
sort_by_name(entries) ==
    IF entries = <<>> THEN <<>>
    ELSE SortInsert(sort_by_name(SubSeq(entries, 1, Len(entries) - 1)), entries[Len(entries)])

\* binary search over the 0-based slice; the result is a 0-based position or -1
RECURSIVE bsearch(_, _, _, _)
bsearch(list, value, low, high) ==
    IF low < high
    THEN LET mid == (low + high) \div 2
             c == NameCmp(list[mid + 1].name, value)
         IN  IF c = "Less" THEN bsearch(list, value, mid + 1, high)
             ELSE IF c = "Equal" THEN mid
             ELSE bsearch(list, value, low, mid)
    ELSE -1

binary_search_index(list, value) == bsearch(list, value, 0, Len(list))

find_index(tn, name) == binary_search_index(tn, name)

\* 0-based position of the first entry that is not set, or -1
find_unset(tn) ==
    IF \E i \in 1..Len(tn) : ~is_set(tn[i])
    THEN (CHOOSE i \in 1..Len(tn) : ~is_set(tn[i]) /\ \A j \in 1..(i - 1) : is_set(tn[j])) - 1
    ELSE -1

\* TreeNode::insert that takes the last slot of a full node
TreeNode_insert_evict(tn, name, addr, kind) ==
    LET pos == IF find_unset(tn) = -1 THEN Len(tn) - 1 ELSE find_unset(tn) IN
    IF name = SepName THEN [res |-> "Panic", tn |-> tn, entry |-> Entry_empty]
    ELSE LET value == Entry_new(name, addr, kind)
         IN  [res |-> "Ok", tn |-> sort_by_name([tn EXCEPT ![pos + 1] = value]), entry |-> value]

\* TreeNode::insert: [res, tn, entry]
TreeNode_insert(tn, name, addr, kind) ==
    LET pos == find_unset(tn) IN
    IF pos = -1 THEN [res |-> "DirectoryFull", tn |-> tn, entry |-> Entry_empty]
    ELSE IF name = SepName THEN [res |-> "Panic", tn |-> tn, entry |-> Entry_empty]
    ELSE LET value == Entry_new(name, addr, kind)
         IN  [res |-> "Ok", tn |-> sort_by_name([tn EXCEPT ![pos + 1] = value]), entry |-> value]

\* iter_entries().count()
count_set(tn) == Cardinality({i \in 1..Len(tn) : is_set(tn[i])})

\* ------------------------------------------------------------------ layout
N_FILE == N_TREE * LEN

N_DATA == BLOCKS * N_FILE

N_FREE == N_DATA \div SLOTS

\* entries_count() of each region
entries_count(region) ==
    CASE region = "META" -> 1
      [] region = "TREE_BITMAP" -> 1
      [] region = "DATA_BITMAP" -> N_FREE
      [] region = "TREE" -> N_TREE
      [] region = "FILE" -> N_FILE
      [] region = "NODE" -> N_FILE
      [] region = "DATA" -> N_DATA

Regions == {"META", "TREE_BITMAP", "DATA_BITMAP", "TREE", "FILE", "NODE", "DATA"}

\* Layout::nth asserts that the logical address lies in the region
nth_ok(region, logical) == logical < entries_count(region)

Sectors == UNION {{<<r, a>> : a \in 0..(entries_count(r) - 1)} : r \in Regions}

\* TreeNode::SERDE_BLOCK_COUNT, the sectors one tree node spans, with an
\* entry scaled down to one byte
SERDE_BLOCK_COUNT == (LEN + BlockLen - 1) \div BlockLen

\* Layout::new_with_size whose end leaves out the size of an entry
new_with_size_flat(begin, capacity, blocks_per_entry) ==
    [begin |-> begin, end |-> begin + capacity, blocks_per_entry |-> blocks_per_entry]

\* Layout::new_with_size
new_with_size(begin, capacity, blocks_per_entry) ==
    [begin |-> begin, end |-> begin + capacity * blocks_per_entry,
     blocks_per_entry |-> blocks_per_entry]

\* the Layout constants, each the next of the one before it
RECURSIVE Layout(_)
Layout(region) ==
    CASE region = "META" -> new_with_size(0, 1, 1)
      [] region = "TREE_BITMAP" -> new_with_size(Layout("META").end, 1, 1)
      [] region = "DATA_BITMAP" -> new_with_size(Layout("TREE_BITMAP").end, N_FREE, 1)
      [] region = "TREE" -> new_with_size(Layout("DATA_BITMAP").end, N_TREE, SERDE_BLOCK_COUNT)
      [] region = "FILE" -> new_with_size(Layout("TREE").end, N_FILE, 1)
      [] region = "NODE" -> new_with_size(Layout("FILE").end, N_FILE, 1)
      [] region = "DATA" -> new_with_size(Layout("NODE").end, N_DATA, 1)

\* Layout::nth, the first sector of an entry of a region
nth(region, logical) == Layout(region).begin + logical * Layout(region).blocks_per_entry

\* Meta::new(): the sector each region begins at, the block size and the
\* signature
Meta_new ==
    LET tree_bitmap == entries_count("META")
        data_bitmap == tree_bitmap + entries_count("TREE_BITMAP")
        tree == data_bitmap + entries_count("DATA_BITMAP")
        file == tree + entries_count("TREE")
        node == file + entries_count("FILE")
    IN  [begins |-> <<tree_bitmap, tree, file, node, data_bitmap, node + entries_count("NODE")>>,
         block_size |-> BlockLen, signature |-> <<19, 55>>]

\* a zeroed sector, as each region decodes it
ZeroBlock(region) ==
    CASE region \in {"TREE_BITMAP", "DATA_BITMAP"} -> {}
      [] region = "META" -> [begins |-> <<0, 0, 0, 0, 0, 0>>, block_size |-> 0,
                             signature |-> <<0, 0>>]
      [] region = "TREE" -> Fill(LEN, [name |-> EmptyName, addr |-> 0, kind |-> "File"])
      [] region = "FILE" -> [name |-> EmptyName, node_addr |-> 0]
      [] region = "NODE" -> [file_len |-> 0, data_addrs |-> Fill(BLOCKS, 0)]
      [] region = "DATA" -> Fill(BlockLen, 0)

\* ------------------------------------------------------------------ block cache
\* The machine m is the device behind the cache, the cache entries (most
\* recently used first), the two allocators' last_accessed, the list of
\* sectors written to the device by the call in progress and the number of
\* reads the call in progress has issued.
CachePos(cache, sector) ==
    IF \E i \in 1..Len(cache) : cache[i].sector = sector
    THEN CHOOSE i \in 1..Len(cache) : cache[i].sector = sector
                                      /\ \A j \in 1..(i - 1) : cache[j].sector # sector
    ELSE 0

\* entries.swap(0, pos)
Swap0(cache, pos) ==
    IF pos = 1 THEN cache
    ELSE <<cache[pos]>> \o SubSeq(cache, 2, pos - 1) \o <<cache[1]>>
         \o SubSeq(cache, pos + 1, Len(cache))

\* BlockCache::insert: rotate right and overwrite position 0
Cache_insert(cache, sector, block) ==
    LET all == <<[sector |-> sector, block |-> block]>> \o cache
    IN  SubSeq(all, 1, IF Len(all) > SIZE THEN SIZE ELSE Len(all))

\* BlockCache::read: the block handed to the caller
Cache_read(m, sector) ==
    LET pos == CachePos(m.cache, sector)
    IN  IF pos # 0 THEN m.cache[pos].block ELSE m.dev[sector]

\* BlockCache::read: the machine after the read
Cache_touch(m, sector) ==
    LET pos == CachePos(m.cache, sector)
    IN  IF pos # 0 THEN [m EXCEPT !.cache = Swap0(m.cache, pos), !.rd = m.rd + 1]
        ELSE [m EXCEPT !.cache = Cache_insert(m.cache, sector, m.dev[sector]),
                       !.rd = m.rd + 1]

\* BlockCache::write of a whole block
Cache_write(m, sector, block) ==
    LET pos == CachePos(m.cache, sector)
        m1 == [m EXCEPT !.dev[sector] = block, !.log = Append(m.log, sector)]
    IN  IF pos # 0
        THEN [m1 EXCEPT !.cache = <<[sector |-> sector, block |-> block]>>
                                   \o Tail(Swap0(m1.cache, pos))]
        ELSE m1

\* BlockCache::write of a chunk shorter than a block: the device overwrites
\* the first bytes of the sector; copy_from_slice into a cached block of
\* another length panics.  [m, panic]
Cache_write_short(m, sector, chunk) ==
    LET pos == CachePos(m.cache, sector)
        old == m.dev[sector]
        new == chunk \o SubSeq(old, Len(chunk) + 1, BlockLen)
        m1 == [m EXCEPT !.dev[sector] = new, !.log = Append(m.log, sector)]
    IN  IF pos # 0
        THEN [m |-> [m1 EXCEPT !.cache = Swap0(m1.cache, pos)], panic |-> TRUE]
        ELSE [m |-> m1, panic |-> FALSE]

\* ------------------------------------------------------------------ allocator
\* Bitmap::allocate on a freshly deserialized bitmap (last_free = 0): the
\* lowest address whose bit is clear, or -1
Bitmap_allocate(bits) ==
    IF \E b \in 0..(SLOTS - 1) : b \notin bits
    THEN CHOOSE b \in 0..(SLOTS - 1) : b \notin bits /\ \A c \in 0..(b - 1) : c \in bits
    ELSE -1

to_bitmap_offset(addr) == addr % SLOTS

to_bitmap_addr(addr) == addr \div SLOTS

to_addr(bitmap_addr, allocated_addr) == bitmap_addr * SLOTS + allocated_addr

\* Allocator::allocate, the circular scan from last_accessed: [m, res, addr]
RECURSIVE allocate_scan(_, _, _)
allocate_scan(m, region, k) ==
    IF k >= entries_count(region) THEN [m |-> m, res |-> "StorageFull", addr |-> 0]
    ELSE LET addr == (k + m.last[region]) % entries_count(region)
             sector == <<region, addr>>
             bits == Cache_read(m, sector)
             m1 == Cache_touch(m, sector)
             allocation == Bitmap_allocate(bits)
         IN  IF allocation # -1
             THEN [m |-> [Cache_write(m1, sector, bits \cup {allocation})
                             EXCEPT !.last[region] = addr],
                   res |-> "Ok", addr |-> to_addr(addr, allocation)]
             ELSE allocate_scan(m1, region, k + 1)

allocate(m, region) == allocate_scan(m, region, 0)

\* Allocator::release that leaves last_accessed where it is
release_keep_last(m, region, addr) ==
    LET bitmap_addr == to_bitmap_addr(addr)
        sector == <<region, bitmap_addr>>
    IN  IF ~nth_ok(region, bitmap_addr) THEN [m |-> m, res |-> "Panic"]
        ELSE [m |-> Cache_write(Cache_touch(m, sector), sector,
                                Cache_read(m, sector) \ {to_bitmap_offset(addr)}),
              res |-> "Ok"]

\* Allocator::release: [m, res]
release(m, region, addr) ==
    LET bitmap_addr == to_bitmap_addr(addr)
        sector == <<region, bitmap_addr>>
    IN  IF ~nth_ok(region, bitmap_addr) THEN [m |-> m, res |-> "Panic"]
        ELSE LET bits == Cache_read(m, sector)
                 m1 == Cache_touch(m, sector)
                 m2 == Cache_write(m1, sector, bits \ {to_bitmap_offset(addr)})
             IN  [m |-> IF bitmap_addr < m2.last[region]
                        THEN [m2 EXCEPT !.last[region] = bitmap_addr] ELSE m2,
                  res |-> "Ok"]

\* release every address of a list in order: [m, res]
RECURSIVE release_all(_, _, _)
release_all(m, region, addrs) ==
    IF addrs = <<>> THEN [m |-> m, res |-> "Ok"]
    ELSE LET r == release(m, region, Head(addrs))
         IN  IF r.res # "Ok" THEN r ELSE release_all(r.m, region, Tail(addrs))

\* allocate_n whose rollback misses the address allocated last
RECURSIVE allocate_n_loop_short(_, _, _, _, _)
allocate_n_loop_short(m, region, addrs, n, current) ==
    IF current >= n THEN [m |-> m, res |-> "Ok", addrs |-> addrs]
    ELSE LET a == allocate(m, region)
         IN  IF a.res = "Ok"
             THEN allocate_n_loop_short(a.m, region, [addrs EXCEPT ![current + 1] = a.addr],
                                        n, current + 1)
             ELSE LET r == release_all(a.m, region, SubSeq(addrs, 1, current - 1))
                  IN  [m |-> r.m, res |-> IF r.res = "Ok" THEN "StorageFull" ELSE r.res,
                       addrs |-> addrs]

\* Allocator::allocate_n: [m, res, addrs]
RECURSIVE allocate_n_loop(_, _, _, _, _)
allocate_n_loop(m, region, addrs, n, current) ==
    IF current >= n THEN [m |-> m, res |-> "Ok", addrs |-> addrs]
    ELSE LET a == allocate(m, region)
         IN  IF a.res = "Ok"
             THEN allocate_n_loop(a.m, region, [addrs EXCEPT ![current + 1] = a.addr], n, current + 1)
             ELSE LET r == release_all(a.m, region, SubSeq(addrs, 1, current))
                  IN  [m |-> r.m, res |-> IF r.res = "Ok" THEN "StorageFull" ELSE r.res,
                       addrs |-> addrs]

allocate_n(m, region, addrs, n) ==
    IF Len(addrs) < n THEN [m |-> m, res |-> "BufferTooSmall", addrs |-> addrs]
    ELSE allocate_n_loop(m, region, addrs, n, 0)

div_ceil(a, b) == (a + b - 1) \div b

Node_new(file_size, addrs) == [file_len |-> file_size, data_addrs |-> addrs]

\* allocate_node_data that takes one block more than a payload of whole
\* blocks needs
allocate_node_data_extra(m, file_size) ==
    LET r == allocate_n(m, "DATA_BITMAP", Fill(BLOCKS, 0), file_size \div BlockLen + 1)
    IN  [m |-> r.m, res |-> r.res, node |-> Node_new(file_size, r.addrs)]

\* DataAllocator::allocate_node_data: [m, res, node]
allocate_node_data(m, file_size) ==
    LET r == allocate_n(m, "DATA_BITMAP", Fill(BLOCKS, 0), div_ceil(file_size, BlockLen))
    IN  [m |-> r.m, res |-> r.res, node |-> Node_new(file_size, r.addrs)]

\* the addresses release_node_data walks: node.block_addrs()
block_addrs(node) == node.data_addrs

\* DataAllocator::release_node_data: [m, res]
release_node_data(m, node) == release_all(m, "DATA_BITMAP", block_addrs(node))

\* ------------------------------------------------------------------ paths
\* A path is its components plus a flag telling that the string is not in
\* normal form (it starts or ends with a separator).
norm(path) == [path EXCEPT !.raw = FALSE]

first_component(path) == Head(path.comps)

dirname(path) == SubSeq(path.comps, 1, Len(path.comps) - 1)

basename(path) == path.comps[Len(path.comps)]

tail(path) ==
    IF dirname(path) = <<>> THEN norm(path)
    ELSE [raw |-> FALSE, comps |-> Tail(path.comps)]

\* the whole path string used as a name (it has a single component)
as_name(path) == IF path.raw THEN SepName ELSE path.comps[1]

\* paths::validate; the first component is the whole string when the path
\* has one component and no separator at either end
\* validate that accepts a component of exactly NAME_LEN bytes
RECURSIVE validate_inclusive(_)
validate_inclusive(path) ==
    IF ~path.raw /\ Len(path.comps) = 1 /\ NameLen(path.comps[1]) <= NAME_LEN THEN "Ok"
    ELSE IF NameLen(first_component(path)) > NAME_LEN THEN "FileNameTooLong"
    ELSE validate_inclusive(tail(path))

RECURSIVE validate(_)
validate(path) ==
    IF ~path.raw /\ Len(path.comps) = 1 /\ NameLen(path.comps[1]) < NAME_LEN THEN "Ok"
    ELSE IF NameLen(first_component(path)) >= NAME_LEN THEN "FileNameTooLong"
    ELSE validate(tail(path))

\* ------------------------------------------------------------------ tree
TreeSector(addr) == <<"TREE", addr>>

\* insert_file: [m, res, entry]
RECURSIVE insert_file(_, _, _)
insert_file(m, file_path, addr) ==
    LET current == Cache_read(m, TreeSector(addr))
        m1 == Cache_touch(m, TreeSector(addr))
    IN  IF dirname(file_path) = <<>>
        THEN IF find_index(current, as_name(file_path)) # -1
             THEN [m |-> m1, res |-> "FileAlreadyExists", entry |-> Entry_empty]
             ELSE LET ins == TreeNode_insert(current, as_name(file_path), addr, "File")
                  IN  IF ins.res = "Panic"
                      THEN [m |-> m1, res |-> "Panic", entry |-> Entry_empty]
                      ELSE [m |-> Cache_write(m1, TreeSector(addr), ins.tn),
                            res |-> ins.res, entry |-> ins.entry]
        ELSE LET next_path == tail(file_path)
                 first == first_component(file_path)
                 pos == find_index(current, first)
             IN  IF pos # -1
                 THEN insert_file(m1, next_path, current[pos + 1].addr)
                 ELSE IF find_unset(current) = -1
                 THEN [m |-> m1, res |-> "StorageFull", entry |-> Entry_empty]
                 ELSE LET a == allocate(m1, "TREE_BITMAP")
                          ins == TreeNode_insert(current, first, a.addr, "Dir")
                      IN  IF a.res # "Ok"
                          THEN [m |-> a.m, res |-> a.res, entry |-> Entry_empty]
                          ELSE IF ~nth_ok("TREE", a.addr)
                          THEN [m |-> a.m, res |-> "Panic", entry |-> Entry_empty]
                          ELSE insert_file(
                                 Cache_write(Cache_write(a.m, TreeSector(a.addr), TreeNode_new),
                                             TreeSector(addr), ins.tn),
                                 next_path, a.addr)

\* find_and_then up to the call of the callback: [m, res, addr, node, pos]
RECURSIVE find_and_then(_, _, _)
find_and_then(m, file_path, addr) ==
    LET node == Cache_read(m, TreeSector(addr))
        m1 == Cache_touch(m, TreeSector(addr))
        pos == find_index(node, first_component(file_path))
    IN  IF pos # -1
        THEN IF tail(file_path) = file_path
             THEN [m |-> m1, res |-> "Ok", addr |-> addr, node |-> node, pos |-> pos]
             ELSE find_and_then(m1, tail(file_path), node[pos + 1].addr)
        ELSE [m |-> m1, res |-> "FileNotFound", addr |-> addr, node |-> node, pos |-> -1]

\* Tree::remove_file: [m, res]
remove_file(m, file_path) ==
    LET f == find_and_then(m, file_path, 0)
    IN  IF f.res # "Ok" THEN [m |-> f.m, res |-> f.res]
        ELSE [m |-> Cache_write(f.m, TreeSector(f.addr), [f.node EXCEPT ![f.pos + 1] = Entry_empty]),
              res |-> "Ok"]

\* Tree::get_file: [m, res, entry]
get_file(m, file_path) ==
    LET f == find_and_then(m, file_path, 0)
    IN  [m |-> f.m, res |-> f.res,
         entry |-> IF f.res = "Ok" THEN f.node[f.pos + 1] ELSE Entry_empty]

\* prune: [m, res, pruned]; prune_children is its loop over the entries
RECURSIVE prune(_, _)
RECURSIVE prune_children(_, _, _, _)
prune_children(m, current, i, dirty) ==
    IF i > Len(current) THEN [m |-> m, current |-> current, dirty |-> dirty]
    ELSE IF is_set(current[i]) /\ is_dir(current[i])
    THEN LET r == prune(m, current[i].addr)
         IN  IF r.res = "Ok" /\ r.pruned
             THEN prune_children(r.m, [current EXCEPT ![i] = Entry_empty], i + 1, TRUE)
             ELSE prune_children(r.m, current, i + 1, dirty)
    ELSE prune_children(m, current, i + 1, dirty)

\* prune that also releases the root node once it is empty
prune_root(m, addr) ==
    LET c == prune_children(Cache_touch(m, TreeSector(addr)),
                            Cache_read(m, TreeSector(addr)), 1, FALSE)
    IN  IF count_set(c.current) = 0
        THEN LET r == release(c.m, "TREE_BITMAP", addr)
             IN  [m |-> r.m, res |-> r.res, pruned |-> TRUE]
        ELSE [m |-> IF c.dirty THEN Cache_write(c.m, TreeSector(addr), c.current) ELSE c.m,
              res |-> "Ok", pruned |-> FALSE]

prune(m, addr) ==
    LET c == prune_children(Cache_touch(m, TreeSector(addr)),
                            Cache_read(m, TreeSector(addr)), 1, FALSE)
    IN  IF addr # 0 /\ count_set(c.current) = 0
        THEN LET r == release(c.m, "TREE_BITMAP", addr)
             IN  [m |-> r.m, res |-> r.res, pruned |-> TRUE]
        ELSE [m |-> IF c.dirty THEN Cache_write(c.m, TreeSector(addr), c.current) ELSE c.m,
              res |-> "Ok", pruned |-> FALSE]

\* Visitor::walk_tree with a CounterVisitor of the given kind: [m, count]
RECURSIVE walk_tree(_, _, _)
RECURSIVE walk_children(_, _, _, _, _)
walk_children(m, node, i, kind, count) ==
    IF i > Len(node) THEN [m |-> m, count |-> count]
    ELSE IF is_set(node[i]) /\ is_dir(node[i])
    THEN LET r == walk_tree(m, node[i].addr, kind)
         IN  walk_children(r.m, node, i + 1, kind, count + r.count)
    ELSE walk_children(m, node, i + 1, kind, count)

walk_tree(m, addr, kind) ==
    LET node == Cache_read(m, TreeSector(addr))
        w == walk_children(Cache_touch(m, TreeSector(addr)), node, 1, kind, 0)
    IN  [m |-> w.m,
         count |-> w.count + Cardinality({i \in 1..Len(node) : is_set(node[i]) /\ node[i].kind = kind})]

count_files(m) == walk_tree(m, 0, "File")

count_dirs(m) == walk_tree(m, 0, "Dir")

\* ------------------------------------------------------------------ file data
Min(a, b) == IF a < b THEN a ELSE b

\* data.chunks(Block::LEN).nth(i)
chunk_at(data, i) == SubSeq(data, i * BlockLen + 1, Min((i + 1) * BlockLen, Len(data)))

\* DataWriter::write_to_device from chunk i on: [m, res]
RECURSIVE write_chunks(_, _, _, _)
write_chunks(m, addrs, data, i) ==
    IF i >= div_ceil(Len(data), BlockLen) THEN [m |-> m, res |-> "Ok"]
    ELSE IF ~nth_ok("DATA", addrs[i + 1]) THEN [m |-> m, res |-> "Panic"]
    ELSE IF Len(chunk_at(data, i)) = BlockLen
    THEN write_chunks(Cache_write(m, <<"DATA", addrs[i + 1]>>, chunk_at(data, i)), addrs, data, i + 1)
    ELSE LET w == Cache_write_short(m, <<"DATA", addrs[i + 1]>>, chunk_at(data, i))
         IN  IF w.panic THEN [m |-> w.m, res |-> "Panic"]
             ELSE write_chunks(w.m, addrs, data, i + 1)

\* out[from .. from + Len(bytes)] = bytes, with from counted from 0
copy_into(out, from, bytes) ==
    SubSeq(out, 1, from) \o bytes \o SubSeq(out, from + Len(bytes) + 1, Len(out))

\* the loop of FileReader::read from block i on: [m, res, out]
RECURSIVE read_blocks(_, _, _, _)
read_blocks(m, node, out, i) ==
    LET blocks_needed == div_ceil(node.file_len, BlockLen)
        sector == <<"DATA", node.data_addrs[i + 1]>>
        block == Cache_read(m, sector)
        remaining_bytes == node.file_len % BlockLen
    IN  IF i >= blocks_needed THEN [m |-> m, res |-> "Ok", out |-> out]
        ELSE IF ~nth_ok("DATA", node.data_addrs[i + 1]) THEN [m |-> m, res |-> "Panic", out |-> out]
        ELSE IF i = blocks_needed - 1
        THEN [m |-> Cache_touch(m, sector), res |-> "Ok",
              out |-> copy_into(out, i * BlockLen, SubSeq(block, 1, remaining_bytes))]
        ELSE read_blocks(Cache_touch(m, sector), node, copy_into(out, i * BlockLen, block), i + 1)

\* FileReader::read into the buffer out: [m, res, n, out]
FileReader_read(m, node, out) ==
    IF Len(out) < node.file_len
    THEN [m |-> m, res |-> "BufferTooSmall", n |-> 0, out |-> out]
    ELSE LET r == read_blocks(m, node, out, 0)
         IN  [m |-> r.m, res |-> r.res, n |-> IF r.res = "Ok" THEN node.file_len ELSE 0,
              out |-> r.out]

\* ------------------------------------------------------------------ controller
\* Controller::create: [m, res, ins, tree]; ins is the result of insert_file
\* and tree the machine right after it.  Each step of the function is one
\* definition, taking what the steps before it returned: e from insert_file,
\* a from allocate_node_data, w from the DataWriter.
\* create that persists the tree node of the new slot once more after the
\* File record
create_written_tree_last(e, a, w) ==
    IF w.res # "Ok" THEN [m |-> w.m, res |-> w.res, ins |-> "Ok", tree |-> e.m]
    ELSE [m |-> Cache_write(Cache_write(Cache_write(w.m, <<"NODE", e.entry.addr>>, a.node),
                                        <<"FILE", e.entry.addr>>,
                                        [name |-> e.entry.name, node_addr |-> e.entry.addr]),
                            <<"TREE", e.entry.addr>>, e.m.dev[<<"TREE", e.entry.addr>>]),
          res |-> "Ok", ins |-> "Ok", tree |-> e.m]

\* create that writes the File record before the Node
create_written_file_first(e, a, w) ==
    IF w.res # "Ok" THEN [m |-> w.m, res |-> w.res, ins |-> "Ok", tree |-> e.m]
    ELSE [m |-> Cache_write(Cache_write(w.m, <<"FILE", e.entry.addr>>,
                                        [name |-> e.entry.name, node_addr |-> e.entry.addr]),
                            <<"NODE", e.entry.addr>>, a.node),
          res |-> "Ok", ins |-> "Ok", tree |-> e.m]

create_written(e, a, w) ==
    IF w.res # "Ok" THEN [m |-> w.m, res |-> w.res, ins |-> "Ok", tree |-> e.m]
    ELSE [m |-> Cache_write(Cache_write(w.m, <<"NODE", e.entry.addr>>, a.node),
                            <<"FILE", e.entry.addr>>,
                            [name |-> e.entry.name, node_addr |-> e.entry.addr]),
          res |-> "Ok", ins |-> "Ok", tree |-> e.m]

create_allocated(e, a, data) ==
    IF a.res # "Ok" THEN [m |-> a.m, res |-> a.res, ins |-> "Ok", tree |-> e.m]
    ELSE create_written(e, a, write_chunks(a.m, a.node.data_addrs, data, 0))

create_inserted(e, data) ==
    IF e.res # "Ok" THEN [m |-> e.m, res |-> e.res, ins |-> e.res, tree |-> e.m]
    ELSE create_allocated(e, allocate_node_data(e.m, Len(data)), data)

\* create that also rejects a payload of exactly MAX_FILE_SIZE bytes
create_exclusive(m, file_path, data) ==
    IF validate(file_path) # "Ok"
    THEN [m |-> m, res |-> "FileNameTooLong", ins |-> "-", tree |-> m]
    ELSE IF Len(data) >= MAX_FILE_SIZE
    THEN [m |-> m, res |-> "FileTooLarge", ins |-> "-", tree |-> m]
    ELSE create_inserted(insert_file(m, file_path, 0), data)

create(m, file_path, data) ==
    IF validate(file_path) # "Ok"
    THEN [m |-> m, res |-> "FileNameTooLong", ins |-> "-", tree |-> m]
    ELSE IF Len(data) > MAX_FILE_SIZE
    THEN [m |-> m, res |-> "FileTooLarge", ins |-> "-", tree |-> m]
    ELSE create_inserted(insert_file(m, file_path, 0), data)

\* NodeHandle::load_from at a node address: the Node read
load_from(m, addr) == Cache_read(m, <<"NODE", addr>>)

\* NodeHandle::load_from, then erase_from of the node and of the file handle
erase_from(m, addr) ==
    Cache_write(Cache_write(Cache_touch(m, <<"NODE", addr>>),
                            <<"NODE", addr>>, ZeroBlock("NODE")),
                <<"FILE", addr>>, ZeroBlock("FILE"))

\* Controller::delete: [m, res, rm, tree]; rm is the result of remove_file
\* and tree the machine right after it.  g is what get_file returned, node
\* the Node loaded before the erase, rm and pr what remove_file and prune
\* returned.
delete_pruned(node, rm, pr) ==
    IF pr.res # "Ok" THEN [m |-> pr.m, res |-> pr.res, rm |-> "Ok", tree |-> rm.m]
    ELSE [m |-> release_node_data(pr.m, node).m, res |-> release_node_data(pr.m, node).res,
          rm |-> "Ok", tree |-> rm.m]

\* delete that releases the data blocks before it prunes the tree
delete_removed_release_first(node, rm) ==
    IF rm.res # "Ok" THEN [m |-> rm.m, res |-> rm.res, rm |-> rm.res, tree |-> rm.m]
    ELSE delete_pruned(node, rm, prune(release_node_data(rm.m, node).m, 0))

delete_removed(node, rm) ==
    IF rm.res # "Ok" THEN [m |-> rm.m, res |-> rm.res, rm |-> rm.res, tree |-> rm.m]
    ELSE delete_pruned(node, rm, prune(rm.m, 0))

delete_found(g, file_path) ==
    IF g.res # "Ok" THEN [m |-> g.m, res |-> g.res, rm |-> "-", tree |-> g.m]
    ELSE delete_removed(load_from(g.m, g.entry.addr),
                        remove_file(erase_from(g.m, g.entry.addr), file_path))

delete(m, file_path) ==
    IF validate(file_path) # "Ok"
    THEN [m |-> m, res |-> "FileNameTooLong", rm |-> "-", tree |-> m]
    ELSE delete_found(get_file(m, file_path), file_path)

\* Controller::open and one read of the returned reader into a zeroed
\* buffer of out_len bytes: [m, res, n, out, file_len]
open_done(node, r) ==
    [m |-> r.m, res |-> r.res, n |-> r.n, out |-> r.out, file_len |-> node.file_len]

open_loaded(m, node, out_len) == open_done(node, FileReader_read(m, node, Fill(out_len, 0)))

open_found(g, out_len) ==
    IF g.res # "Ok"
    THEN [m |-> g.m, res |-> g.res, n |-> 0, out |-> <<>>, file_len |-> 0]
    ELSE open_loaded(Cache_touch(g.m, <<"NODE", g.entry.addr>>),
                     load_from(g.m, g.entry.addr), out_len)

open_read(m, file_path, out_len) ==
    IF validate(file_path) # "Ok"
    THEN [m |-> m, res |-> "FileNameTooLong", n |-> 0, out |-> <<>>, file_len |-> 0]
    ELSE open_found(get_file(m, file_path), out_len)

\* ------------------------------------------------------------------ inputs
NFills == 2          \* distinct payload contents of one length

\* the payload of n bytes with content f; the bytes differ by position
RECURSIVE Payload(_, _)
Payload(n, f) == IF n = 0 THEN <<>> ELSE Append(Payload(n - 1, f), 10 * f + n)

\* payloads of every length up to the maximum
Payloads == {Payload(n, f) : n \in 0..MAX_FILE_SIZE, f \in 1..NFills}

\* a payload that fills a part of one block
SmallPayloads == {Payload(1, 1)}

Path(comps) == [raw |-> FALSE, comps |-> comps]

\* every path of up to MaxDepth names; a separator at either end of the
\* string only matters for a path of one component
Paths == {Path(c) : c \in UNION {[1..k -> Names] : k \in 1..MaxDepth}}
         \cup {[raw |-> TRUE, comps |-> <<n>>] : n \in Names}

\* one file in each of two directories
DataPaths == {Path(<<n, 1>>) : n \in 1..2}

\* as many files in the first directory as a tree node has entries
FilePaths == {Path(<<1, n>>) : n \in 1..LEN}

\* as many directories as a tree node has entries, and a second file in
\* the first of them
DirPaths == {Path(<<n, 1>>) : n \in 1..LEN} \cup {Path(<<1, 2>>)}

\* a path whose names are as long as a name may be, and paths with a
\* component of NAME_LEN bytes or more in each position
RejectPaths ==
    {Path(<<1, NAME_LEN - 1>>), Path(<<NAME_LEN>>), Path(<<1, NAME_LEN>>),
     Path(<<NAME_LEN + 1, 1>>), [raw |-> TRUE, comps |-> <<NAME_LEN>>]}

\* a small payload, the largest payload and one byte more
RejectPayloads == {Payload(1, 1), Payload(MAX_FILE_SIZE, 1), Payload(MAX_FILE_SIZE + 1, 1)}

OutLen == MAX_FILE_SIZE

\* ------------------------------------------------------------------ bitmap bytes
\* A Bitmap as the source holds it: the BlockLen bytes of a block, each an
\* integer below 2^BITS with bit k of byte p standing for address
\* BITS * p + k, and the index of the byte where a free bit was found last.

\* u8::trailing_ones
RECURSIVE trailing_ones(_)
trailing_ones(byte) == IF byte % 2 = 1 THEN 1 + trailing_ones(byte \div 2) ELSE 0

\* u8::count_zeros, over the width lowest bits
RECURSIVE count_zeros(_, _)
count_zeros(byte, width) ==
    IF width = 0 THEN 0 ELSE (1 - (byte % 2)) + count_zeros(byte \div 2, width - 1)

\* Bitmap::new
Bitmap_new == [inner |-> Fill(BlockLen, 0), last_free |-> 0]

\* Bitmap::count_free_addresses, over the bytes inner
RECURSIVE Bitmap_count_free_addresses(_)
Bitmap_count_free_addresses(inner) ==
    IF inner = <<>> THEN 0
    ELSE count_zeros(Head(inner), BITS) + Bitmap_count_free_addresses(Tail(inner))

\* Bitmap::allocate whose last_free becomes the position within the bytes
\* that were not skipped
RECURSIVE Bitmap_allocate_relative(_, _)
Bitmap_allocate_relative(b, pos) ==
    IF b.last_free + pos >= Len(b.inner) THEN [b |-> b, res |-> "None", addr |-> 0]
    ELSE LET taken_bits == trailing_ones(b.inner[b.last_free + pos + 1])
         IN  IF taken_bits < BITS
             THEN [b |-> [inner |-> [b.inner EXCEPT ![b.last_free + pos + 1] = @ + 2 ^ taken_bits],
                          last_free |-> pos],
                   res |-> "Some", addr |-> BITS * pos + taken_bits]
             ELSE Bitmap_allocate_relative(b, pos + 1)

\* Bitmap::allocate, from the byte pos after the last_free bytes it skips:
\* [b, res, addr]
RECURSIVE Bitmap_allocate_from(_, _)
Bitmap_allocate_from(b, pos) ==
    IF b.last_free + pos >= Len(b.inner) THEN [b |-> b, res |-> "None", addr |-> 0]
    ELSE LET taken_bits == trailing_ones(b.inner[b.last_free + pos + 1])
         IN  IF taken_bits < BITS
             THEN [b |-> [inner |-> [b.inner EXCEPT ![b.last_free + pos + 1] = @ + 2 ^ taken_bits],
                          last_free |-> b.last_free + pos],
                   res |-> "Some", addr |-> BITS * (b.last_free + pos) + taken_bits]
             ELSE Bitmap_allocate_from(b, pos + 1)

\* Bitmap::release that leaves last_free where it is
Bitmap_release_keep(b, addr) ==
    [b EXCEPT !.inner[(addr \div BITS) + 1] =
                  IF (@ \div 2 ^ (addr % BITS)) % 2 = 1 THEN @ - 2 ^ (addr % BITS) ELSE @]

\* Bitmap::release of an address the bitmap tracks
Bitmap_release_addr(b, addr) ==
    LET shift == addr % BITS
        pos == addr \div BITS
    IN  [inner |-> [b.inner EXCEPT
                       ![pos + 1] = IF (@ \div 2 ^ shift) % 2 = 1 THEN @ - 2 ^ shift ELSE @],
         last_free |-> IF pos < b.last_free THEN pos ELSE b.last_free]

\* Bitmap::serialize: the bytes the writer receives, those of inner
Bitmap_serialize(b) == b.inner

\* Bitmap::deserialize: Bitmap::new() whose inner is then read from the bytes
Bitmap_deserialize(bytes) == [Bitmap_new EXCEPT !.inner = bytes]

\* ------------------------------------------------------------------ state
VARIABLES
    dev,        \* the block device: sector -> block
    cache,      \* BlockCache entries, most recently used first
    last,       \* last_accessed of the tree and of the data allocator
    mounted,    \* a Controller owns the device
    nops,       \* controller calls made so far
    call,       \* the last controller call and what it returned
    prev,       \* the call before it, when that was a create that returned Ok
    live,       \* paths created and not deleted since
    clean,      \* every create and delete so far returned Ok
    boot,       \* the last of format, mount, unmount or a call, and its result
    bitmap,     \* one Bitmap held in memory: its bytes and last_free
    direct      \* a device that gets the reads and writes without a cache

vars == <<dev, cache, last, mounted, nops, call, prev, live, clean, boot, bitmap, direct>>

NoLast == [TREE_BITMAP |-> 0, DATA_BITMAP |-> 0]

Machine == [dev |-> dev, cache |-> cache, last |-> last, log |-> <<>>, rd |-> 0]

\* what is remembered of a call: op, path and data name it, res is what it
\* returned, log the sectors it wrote and read whether it read a sector;
\* long tells that a component of the path has NAME_LEN bytes or more, big
\* that the payload has more than MAX_FILE_SIZE bytes and full that it has
\* exactly that many; viafile tells that a proper prefix of the path is a
\* file created and not deleted since; ins and rm are the results of
\* insert_file and remove_file inside it, got the result of a get_file of
\* the same path right after them and got_name whether that entry carries
\* the last component of the path; existed, absent, follows, was_clean and
\* pre describe the state the call started from
NoCall == [op |-> "none", path |-> <<>>, data |-> <<>>, res |-> "-", ins |-> "-", rm |-> "-",
           got |-> "-", got_name |-> FALSE, n |-> 0, out |-> <<>>, file_len |-> 0,
           log |-> <<>>, read |-> FALSE, long |-> FALSE, big |-> FALSE, full |-> FALSE,
           viafile |-> FALSE,
           existed |-> FALSE, absent |-> FALSE, follows |-> FALSE,
           was_clean |-> FALSE, pre |-> <<>>]

RECURSIVE BitsUpTo(_)
BitsUpTo(n) == IF n = 0 THEN <<>> ELSE Append(BitsUpTo(n - 1), dev[<<"DATA_BITMAP", n - 1>>])

\* the set bits of the data bitmap sectors, sector a at position a + 1
DataBits == BitsUpTo(N_FREE)

\* Allocator::count_free_addresses over the bitmap sectors of a region
RECURSIVE count_free(_)
count_free(bits) ==
    IF bits = <<>> THEN 0 ELSE (SLOTS - Cardinality(Head(bits))) + count_free(Tail(bits))

\* the set bits of the tree bitmap
TreeBits == dev[<<"TREE_BITMAP", 0>>]

\* the bits of both bitmaps and the directory count before a call
Snapshot == [dbits |-> DataBits, tbits |-> TreeBits, dirs |-> count_dirs(Machine).count]

\* is some component of the path without a set entry of its name in the
\* tree node the descent has reached
RECURSIVE Absent(_, _)
Absent(comps, addr) ==
    LET node == dev[TreeSector(addr)]
        hits == {i \in 1..Len(node) : is_set(node[i]) /\ node[i].name = Head(comps)}
    IN  IF hits = {} THEN TRUE
        ELSE IF Len(comps) = 1 THEN FALSE
        ELSE \A i \in hits : Absent(Tail(comps), node[i].addr)

\* a component of the path before the last one names a file: a proper
\* prefix of the path was created and not deleted since
ViaFile(p) == \E k \in 1..(Len(p.comps) - 1) : SubSeq(p.comps, 1, k) \in live

\* some component of the path has NAME_LEN bytes or more
TooLong(p) == \E i \in 1..Len(p.comps) : NameLen(p.comps[i]) >= NAME_LEN

\* the call before this one was a create of the same path that returned Ok
Follows(p) == call.op = "create" /\ call.res = "Ok" /\ call.path = p.comps

\* a device whose sectors are all zero
RECURSIVE ZeroDevice(_)
ZeroDevice(S) ==
    IF S = {} THEN <<>>
    ELSE LET s == CHOOSE t \in S : TRUE
         IN  (s :> ZeroBlock(s[1])) @@ ZeroDevice(S \ {s})

\* Controller::format of a device d: Meta at sector 0, the empty root node
\* at TREE 0 and one address of the tree bitmap taken; [dev, res]
format_allocated(a) == [dev |-> a.m.dev, res |-> a.res]

format(d) ==
    format_allocated(
        allocate(Cache_write(Cache_write([dev |-> d, cache |-> <<>>, last |-> NoLast,
                                          log |-> <<>>, rd |-> 0],
                                         <<"META", 0>>, Meta_new),
                             TreeSector(0), TreeNode_new),
                 "TREE_BITMAP"))

\* Controller::format on a zeroed device
Formatted == format(ZeroDevice(Sectors)).dev

\* mount that does not look at sector 0
mount_unchecked(d) == "Ok"

\* Controller::mount of a device d: the Meta read from sector 0 must be
\* the Meta of this layout
mount(d) == IF d[<<"META", 0>>] # Meta_new THEN "UnsupportedDevice" ELSE "Ok"

\* what boot holds: fresh tells that format completed on the device and no
\* call was made since
Booted(op, res, fresh) == [op |-> op, res |-> res, fresh |-> fresh]

\* format, then mount
Init ==
    /\ boot = Booted("mount", "Ok", TRUE)
    /\ dev = Formatted
    /\ cache = <<>>
    /\ last = NoLast
    /\ mounted = TRUE
    /\ nops = 0
    /\ call = NoCall
    /\ prev = NoCall
    /\ live = {}
    /\ clean = TRUE
    /\ bitmap = Bitmap_new
    /\ direct = Formatted

\* the device, the cache and the allocators after a call that returned res;
\* a panic ends the process, the device keeps what was written
Commit(m, res) ==
    /\ dev' = m.dev
    /\ cache' = IF res = "Panic" THEN <<>> ELSE m.cache
    /\ last' = IF res = "Panic" THEN NoLast ELSE m.last
    /\ mounted' = (res # "Panic")
    /\ nops' = nops + 1
    /\ prev' = IF call.op = "create" /\ call.res = "Ok" THEN call ELSE NoCall
    /\ boot' = Booted("call", res, FALSE)
    /\ UNCHANGED bitmap

\* Controller::mount
Mount ==
    /\ ~mounted
    /\ mounted' = (mount(dev) = "Ok")
    /\ boot' = Booted("mount", mount(dev), boot.fresh)
    /\ cache' = <<>>
    /\ last' = NoLast
    /\ UNCHANGED <<dev, nops, call, prev, live, clean, bitmap, direct>>

\* Controller::unmount
Unmount ==
    /\ mounted
    /\ mounted' = FALSE
    /\ boot' = Booted("unmount", "Ok", boot.fresh)
    /\ cache' = <<>>
    /\ last' = NoLast
    /\ UNCHANGED <<dev, nops, call, prev, live, clean, bitmap, direct>>

\* Controller::format of a device no controller owns; the files it held
\* are gone
Format ==
    /\ ~mounted /\ nops < MaxOps
    /\ dev' = format(dev).dev
    /\ boot' = Booted("format", format(dev).res, format(dev).res = "Ok")
    /\ nops' = nops + 1
    /\ call' = NoCall
    /\ prev' = NoCall
    /\ live' = {}
    /\ clean' = TRUE
    /\ UNCHANGED <<cache, last, mounted, bitmap, direct>>

\* One controller call of a run of at most max calls.  The path and the
\* payload are remembered only when the call got as far as changing the tree.
\* r is what the call returned; the get_file of the same path is made on
\* the tree the call left.
Created(r, p, d, seen) ==
    /\ Commit(r.m, r.res)
    /\ call' = IF r.ins = "Ok"
               THEN [seen EXCEPT !.res = r.res, !.ins = r.ins, !.log = r.m.log, !.read = (r.m.rd > 0),
                                 !.path = p.comps, !.data = d,
                                 !.got = get_file(r.tree, p).res,
                                 !.got_name = (get_file(r.tree, p).entry.name = basename(p)),
                                 !.pre = Snapshot]
               ELSE [seen EXCEPT !.res = r.res, !.ins = r.ins, !.log = r.m.log, !.read = (r.m.rd > 0)]
    /\ live' = IF r.res = "Ok" THEN live \cup {p.comps} ELSE live
    /\ clean' = (clean /\ r.res = "Ok")
    /\ UNCHANGED direct

Create(p, d, max) ==
    /\ mounted /\ nops < max
    /\ Created(create(Machine, p, d), p, d,
               [NoCall EXCEPT !.op = "create", !.existed = (p.comps \in live),
                              !.was_clean = clean, !.long = TooLong(p), !.viafile = ViaFile(p),
                              !.big = (Len(d) > MAX_FILE_SIZE),
                              !.full = (Len(d) = MAX_FILE_SIZE)])

Deleted(r, p, seen) ==
    /\ Commit(r.m, r.res)
    /\ call' = IF r.rm = "Ok"
               THEN [seen EXCEPT !.res = r.res, !.rm = r.rm, !.log = r.m.log, !.read = (r.m.rd > 0),
                                 !.path = p.comps, !.got = get_file(r.tree, p).res]
               ELSE [seen EXCEPT !.res = r.res, !.rm = r.rm, !.log = r.m.log, !.read = (r.m.rd > 0)]
    /\ live' = IF r.res = "Ok" THEN live \ {p.comps} ELSE live
    /\ clean' = (clean /\ r.res = "Ok")
    /\ UNCHANGED direct

Delete(p, max) ==
    /\ mounted /\ nops < max
    /\ Deleted(delete(Machine, p), p,
               [NoCall EXCEPT !.op = "delete", !.existed = (p.comps \in live),
                              !.absent = Absent(p.comps, 0), !.follows = Follows(p),
                              !.was_clean = clean, !.long = TooLong(p), !.viafile = ViaFile(p)])

Opened(r, p, seen) ==
    /\ Commit(r.m, r.res)
    /\ call' = IF r.res = "Ok"
               THEN [seen EXCEPT !.res = r.res, !.log = r.m.log, !.read = (r.m.rd > 0), !.path = p.comps,
                                 !.n = r.n, !.out = r.out, !.file_len = r.file_len]
               ELSE [seen EXCEPT !.res = r.res, !.log = r.m.log, !.read = (r.m.rd > 0)]
    /\ UNCHANGED <<live, clean, direct>>

Open(p, max) ==
    /\ mounted /\ nops < max
    /\ Opened(open_read(Machine, p, OutLen), p,
              [NoCall EXCEPT !.op = "open", !.existed = (p.comps \in live),
                             !.absent = Absent(p.comps, 0), !.follows = Follows(p),
                             !.was_clean = clean, !.long = TooLong(p), !.viafile = ViaFile(p)])

\* every path, one small payload
Next ==
    \/ Mount
    \/ Unmount
    \/ \E p \in Paths, d \in SmallPayloads : Create(p, d, MaxOps)
    \/ \E p \in Paths : Delete(p, MaxOps)
    \/ \E p \in Paths : Open(p, MaxOps)

Spec == Init /\ [][Next]_vars

\* two paths, every payload
NextData ==
    \/ Mount
    \/ Unmount
    \/ \E p \in DataPaths, d \in Payloads : Create(p, d, MaxOps)
    \/ \E p \in DataPaths : Delete(p, MaxOps)
    \/ \E p \in DataPaths : Open(p, MaxOps)

SpecData == Init /\ [][NextData]_vars

\* creates and deletes of the files of one directory
NextFiles ==
    \/ \E p \in FilePaths, d \in SmallPayloads : Create(p, d, MaxTreeOps)
    \/ \E p \in FilePaths : Delete(p, MaxTreeOps)

SpecFiles == Init /\ [][NextFiles]_vars

\* creates and deletes of files in several directories
NextDirs ==
    \/ \E p \in DirPaths, d \in SmallPayloads : Create(p, d, MaxTreeOps)
    \/ \E p \in DirPaths : Delete(p, MaxTreeOps)

SpecDirs == Init /\ [][NextDirs]_vars

\* calls with paths and payloads that validation rejects, and with some
\* that it accepts
NextReject ==
    \/ \E p \in RejectPaths, d \in RejectPayloads : Create(p, d, MaxOps)
    \/ \E p \in RejectPaths : Delete(p, MaxOps)
    \/ \E p \in RejectPaths : Open(p, MaxOps)

SpecReject == Init /\ [][NextReject]_vars

\* a zeroed sector 0 with the signature alone, and the Meta of a layout
\* with another block size
ForeignMetas ==
    {[ZeroBlock("META") EXCEPT !.signature = Meta_new.signature],
     [Meta_new EXCEPT !.block_size = 2 * BlockLen]}

\* a device no controller owns yet: zeroed, or with a foreign sector 0
InitMount ==
    /\ dev \in {ZeroDevice(Sectors)}
                \cup {[ZeroDevice(Sectors) EXCEPT ![<<"META", 0>>] = f] : f \in ForeignMetas}
    /\ cache = <<>>
    /\ last = NoLast
    /\ mounted = FALSE
    /\ nops = 0
    /\ call = NoCall
    /\ prev = NoCall
    /\ live = {}
    /\ clean = TRUE
    /\ boot = Booted("none", "-", FALSE)
    /\ bitmap = Bitmap_new
    /\ direct = Formatted

\* format, mount and unmount of such a device, and calls on it
NextMount ==
    \/ Format
    \/ Mount
    \/ Unmount
    \/ \E p \in DataPaths, d \in SmallPayloads : Create(p, d, MaxOps)
    \/ \E p \in DataPaths : Delete(p, MaxOps)

SpecMount == InitMount /\ [][NextMount]_vars

\* the data addresses that are free at the start or get released: the
\* first two, the first of the second bitmap sector, one of the third and
\* the last one
AllocAddrs == {0, 1, SLOTS, 2 * SLOTS + 1, N_FREE * SLOTS - 1}

\* the device d with every data address taken but those of free, from
\* bitmap sector a on
RECURSIVE TakeAll(_, _, _)
TakeAll(d, free, a) ==
    IF a >= N_FREE THEN d
    ELSE TakeAll([d EXCEPT ![<<"DATA_BITMAP", a>>] =
                      {b \in 0..(SLOTS - 1) : to_addr(a, b) \notin free}],
                 free, a + 1)

\* a mounted device whose data region is full or nearly full
InitAlloc ==
    /\ dev \in {TakeAll(Formatted, free, 0) : free \in SUBSET AllocAddrs}
    /\ cache = <<>>
    /\ last = NoLast
    /\ mounted = TRUE
    /\ nops = 0
    /\ call = NoCall
    /\ prev = NoCall
    /\ live = {}
    /\ clean = TRUE
    /\ boot = Booted("mount", "Ok", FALSE)
    /\ bitmap = Bitmap_new
    /\ direct = Formatted

\* Allocator::allocate_n of the data allocator into a buffer of
\* BLOCKS + 1 addresses
AllocateN(n) ==
    /\ mounted /\ nops < MaxOps
    /\ LET r == allocate_n(Machine, "DATA_BITMAP", Fill(BLOCKS + 1, 0), n)
       IN  /\ Commit(r.m, r.res)
           /\ call' = [NoCall EXCEPT !.op = "allocate_n", !.res = r.res, !.n = n,
                                     !.log = r.m.log, !.pre = DataBits]
    /\ UNCHANGED <<live, clean, direct>>

\* Allocator::release of the data allocator
Release(addr) ==
    /\ mounted /\ nops < MaxOps
    /\ LET r == release(Machine, "DATA_BITMAP", addr)
       IN  /\ Commit(r.m, r.res)
           /\ call' = [NoCall EXCEPT !.op = "release", !.res = r.res, !.n = addr,
                                     !.log = r.m.log]
    /\ UNCHANGED <<live, clean, direct>>

\* the data allocator on its own
NextAlloc ==
    \/ \E n \in 0..(BLOCKS + 2) : AllocateN(n)
    \/ \E addr \in AllocAddrs : Release(addr)

SpecAlloc == InitAlloc /\ [][NextAlloc]_vars

\* BlockCache::read of a sector into a buffer of a block; the same read
\* goes to the device without a cache
CacheRead(sector) ==
    /\ mounted /\ nops < MaxOps
    /\ Commit(Cache_touch(Machine, sector), "Ok")
    /\ call' = [NoCall EXCEPT !.op = "BlockCache::read", !.res = "Ok", !.path = sector,
                              !.out = Cache_read(Machine, sector), !.read = TRUE]
    /\ UNCHANGED <<live, clean, direct>>

\* BlockCache::write of buf to a sector, buf a block or the last chunk of a
\* payload; the same write goes to the device without a cache, which
\* overwrites the first bytes of the sector
CacheWrite(sector, buf) ==
    /\ mounted /\ nops < MaxOps
    /\ IF Len(buf) = BlockLen
       THEN Commit(Cache_write(Machine, sector, buf), "Ok")
       ELSE Commit(Cache_write_short(Machine, sector, buf).m,
                   IF Cache_write_short(Machine, sector, buf).panic THEN "Panic" ELSE "Ok")
    /\ call' = [NoCall EXCEPT
                   !.op = "BlockCache::write", !.path = sector, !.data = buf,
                   !.res = IF Len(buf) < BlockLen /\ Cache_write_short(Machine, sector, buf).panic
                           THEN "Panic" ELSE "Ok"]
    /\ direct' = [direct EXCEPT ![sector] = buf \o SubSeq(@, Len(buf) + 1, BlockLen)]
    /\ UNCHANGED <<live, clean>>

\* reads and writes of more data sectors than the cache holds
NextCache ==
    \/ \E addr \in 0..SIZE : CacheRead(<<"DATA", addr>>)
    \/ \E addr \in 0..SIZE, len \in 1..BlockLen, v \in 1..NFills :
           CacheWrite(<<"DATA", addr>>, Fill(len, v))

SpecCache == Init /\ [][NextCache]_vars

\* Bitmap::allocate on the bitmap held in memory
BitmapAllocate ==
    /\ bitmap' = Bitmap_allocate_from(bitmap, 0).b
    /\ call' = [NoCall EXCEPT !.op = "Bitmap::allocate",
                              !.res = Bitmap_allocate_from(bitmap, 0).res,
                              !.n = Bitmap_allocate_from(bitmap, 0).addr,
                              !.pre = bitmap.inner]
    /\ UNCHANGED <<dev, cache, last, mounted, nops, prev, live, clean, boot, direct>>

\* Bitmap::release on the bitmap held in memory
BitmapRelease(addr) ==
    /\ bitmap' = Bitmap_release_addr(bitmap, addr)
    /\ call' = [NoCall EXCEPT !.op = "Bitmap::release", !.res = "Ok", !.n = addr,
                              !.pre = bitmap.inner]
    /\ UNCHANGED <<dev, cache, last, mounted, nops, prev, live, clean, boot, direct>>

\* any sequence of allocate and release calls on one Bitmap
NextBitmap ==
    \/ BitmapAllocate
    \/ \E addr \in 0..(BITS * BlockLen - 1) : BitmapRelease(addr)

SpecBitmap == Init /\ [][NextBitmap]_vars

\* ------------------------------------------------------------------ claims
\* the bytes of a payload
Size(d) == Len(d)

\* C1: create(p, d) of a path that did not exist, followed by open(p) and a
\* read into a buffer of at least |d| bytes, returns |d|, leaves the first
\* |d| bytes of the buffer equal to d and reports file_len = |d|, for every
\* length of d up to the maximum, whole multiples of the block length
\* included.
C1_RoundTrip ==
    (call.op = "open" /\ call.follows /\ ~prev.existed)
        => /\ call.res = "Ok"
           /\ call.n = Size(prev.data)
           /\ call.file_len = Size(prev.data)
           /\ SubSeq(call.out, 1, Size(prev.data)) = prev.data

\* the round trip of C1 for the payloads that do not end on a block boundary
C1_RoundTripPartial ==
    (call.op = "open" /\ call.follows /\ ~prev.existed /\ Size(prev.data) % BlockLen # 0)
        => /\ call.res = "Ok"
           /\ call.n = Size(prev.data)
           /\ call.file_len = Size(prev.data)
           /\ SubSeq(call.out, 1, Size(prev.data)) = prev.data

\* C2: after any sequence of creates and deletes that all returned Ok,
\* get_file succeeds for every path inserted and not removed since.
C2_LiveFound ==
    clean => \A q \in live : get_file(Machine, Path(q)).res = "Ok"

\* the Node of the file at path q, read through its tree entry
NodeOf(q) == dev[<<"NODE", get_file(Machine, Path(q)).entry.addr>>]

\* the data addresses in the first ceil(file_len / BlockLen) slots of a Node
Held(node) == {node.data_addrs[i] : i \in 1..div_ceil(node.file_len, BlockLen)}

\* the paths of live that get_file finds
Existing == {q \in live : get_file(Machine, Path(q)).res = "Ok"}

\* C3: every data address held by the Node of an existing file has its bit
\* set in the data bitmap and is held by the Node of no other existing file.
C3_BlocksOwned ==
    clean => \A q \in Existing : \A a \in Held(NodeOf(q)) :
                /\ to_bitmap_offset(a) \in DataBits[to_bitmap_addr(a) + 1]
                /\ \A q2 \in Existing \ {q} : a \notin Held(NodeOf(q2))

\* C4: two files that exist at the same time have different inode addresses.
C4_DistinctInodes ==
    clean => \A q1 \in Existing : \A q2 \in Existing \ {q1} :
                get_file(Machine, Path(q1)).entry.addr # get_file(Machine, Path(q2)).entry.addr

\* C5: after create(p, d) followed by delete(p), both returning Ok, the set
\* bits of the data bitmap are those of the state before the create, also
\* when other files hold data blocks.
C5_DataBitsRestored ==
    (call.op = "delete" /\ call.res = "Ok" /\ call.follows /\ prev.was_clean)
        => DataBits = prev.pre.dbits

\* C6: right after insert_file(p) returned Ok, get_file(p) returns Ok with
\* an entry named basename(p); right after remove_file(p) returned Ok,
\* get_file(p) returns FileNotFound.
C6_TreeLookup ==
    /\ (call.op = "create" /\ call.ins = "Ok") => (call.got = "Ok" /\ call.got_name)
    /\ (call.op = "delete" /\ call.rm = "Ok") => call.got = "FileNotFound"

\* the first half of C6 alone
C6_InsertThenGet ==
    (call.op = "create" /\ call.ins = "Ok") => (call.got = "Ok" /\ call.got_name)

\* C7: after creates and deletes that all returned Ok, count_files is the
\* number of paths created and not deleted since, files of the root
\* directory included.
C7_CountFiles ==
    clean => count_files(Machine).count = Cardinality(live)

\* C8: from a state reached by creates and deletes that all returned Ok,
\* create(p, d) of a path that did not exist followed by delete(p) brings
\* count_dirs and the number of set bits of the tree bitmap back to what
\* they were before the create.
C8_DirsRestored ==
    (call.op = "delete" /\ call.follows /\ prev.was_clean /\ ~prev.existed)
        => /\ Cardinality(TreeBits) = Cardinality(prev.pre.tbits)
           /\ count_dirs(Machine).count = prev.pre.dirs

\* C8 for the deletes that returned Ok
C8_DirsRestoredOk ==
    (call.op = "delete" /\ call.res = "Ok" /\ call.follows /\ prev.was_clean
        /\ ~prev.existed)
        => /\ Cardinality(TreeBits) = Cardinality(prev.pre.tbits)
           /\ count_dirs(Machine).count = prev.pre.dirs

\* C9: create of a path that names an existing file returns
\* FileAlreadyExists and writes no sector, also when the file was created
\* before an unmount and a mount.
C9_DuplicateCreate ==
    (call.op = "create" /\ call.existed)
        => (call.res = "FileAlreadyExists" /\ call.log = <<>>)

\* C10: delete and open of a path one of whose components has no set entry
\* of its name in the tree node reached so far return FileNotFound and
\* write no sector.
C10_AbsentNotFound ==
    (call.op \in {"delete", "open"} /\ call.absent)
        => (call.res = "FileNotFound" /\ call.log = <<>>)

\* C11: create of a valid path with a payload of more than MAX_FILE_SIZE
\* bytes returns FileTooLarge and neither reads nor writes a sector; a
\* payload of exactly MAX_FILE_SIZE bytes is not rejected as too large.
C11_FileTooLarge ==
    (call.op = "create" /\ ~call.long)
        => /\ call.big => (call.res = "FileTooLarge" /\ call.log = <<>> /\ ~call.read)
           /\ call.full => call.res # "FileTooLarge"

\* a payload of MAX_FILE_SIZE bytes was stored and the next create, with
\* one byte more, was rejected
C11_Witness ==
    /\ call.op = "create" /\ call.big /\ ~call.long /\ call.res = "FileTooLarge"
    /\ prev.op = "create" /\ prev.full /\ prev.res = "Ok"

\* C12: create, delete and open return FileNameTooLong exactly for the
\* paths one of whose components has NAME_LEN bytes or more, and such a
\* call neither reads nor writes a sector.
C12_NameTooLong ==
    (call.op \in {"create", "delete", "open"})
        => /\ (call.res = "FileNameTooLong") <=> call.long
           /\ call.long => (call.log = <<>> /\ ~call.read)

\* a path with a long component was rejected on a device that holds a file
\* whose name is one byte shorter
C12_Witness ==
    /\ call.op \in {"delete", "open"} /\ call.long /\ call.res = "FileNameTooLong"
    /\ <<1, NAME_LEN - 1>> \in live

\* C13: create, open and delete of a path in which a component before the
\* last one names an existing file return DirectoryNotFound and write no
\* sector: the descent goes through directory entries only.
C13_ThroughFile ==
    (call.op \in {"create", "delete", "open"} /\ call.viafile)
        => (call.res = "DirectoryNotFound" /\ call.log = <<>>)

C14_Refused ==
    boot.op = "mount" /\ boot.res = "UnsupportedDevice" /\ dev = ZeroDevice(Sectors)

\* C15: when allocate_n returns StorageFull, for whatever bits were taken
\* before and whatever n the buffer can hold, the taken bits of the
\* region's bitmap sectors, and with them count_free, are what they were
\* before the call.
C15_Rollback ==
    (call.op = "allocate_n" /\ call.res = "StorageFull")
        => /\ DataBits = call.pre
           /\ count_free(DataBits) = count_free(call.pre)

\* allocate_n took two addresses in different bitmap sectors, found no
\* third one and released both
C15_Witness ==
    /\ call.op = "allocate_n" /\ call.res = "StorageFull" /\ call.n = BLOCKS + 1
    /\ Len(call.log) >= 4 /\ count_free(DataBits) = 2
    /\ \E i, j \in 1..Len(call.log) : call.log[i] # call.log[j]

\* C16: for one Bitmap, after any sequence of allocate and release calls
\* count_free_addresses plus the number of set bits is the number of
\* addresses the bitmap tracks, and allocate never returns an address whose
\* bit was already set.
C16_BitmapCount ==
    /\ Bitmap_count_free_addresses(bitmap.inner)
           + Cardinality({a \in 0..(BITS * BlockLen - 1) :
                             (bitmap.inner[a \div BITS + 1] \div 2 ^ (a % BITS)) % 2 = 1})
         = BITS * BlockLen
    /\ (call.op = "Bitmap::allocate" /\ call.res = "Some")
          => /\ call.n \in 0..(BITS * BlockLen - 1)
             /\ (call.pre[call.n \div BITS + 1] \div 2 ^ (call.n % BITS)) % 2 = 0
             /\ (bitmap.inner[call.n \div BITS + 1] \div 2 ^ (call.n % BITS)) % 2 = 1

\* allocate returned an address of the second byte that had been released
\* while a higher address was still taken
C16_Witness ==
    /\ call.op = "Bitmap::allocate" /\ call.res = "Some" /\ call.n > BITS
    /\ count_zeros(bitmap.inner[1], BITS) = 0
    /\ \E a \in (call.n + 1)..(BITS * BlockLen - 1) :
           (call.pre[a \div BITS + 1] \div 2 ^ (a % BITS)) % 2 = 1

\* allocate found every bit set
C16_Full ==
    call.op = "Bitmap::allocate" /\ call.res = "None"
        /\ Bitmap_count_free_addresses(bitmap.inner) = 0

\* C17: for every sequence of sector reads and writes issued through
\* BlockCache, each call returns as it would on the device alone, a read
\* with the bytes the device alone would hold, the device behind the cache
\* holds what the device alone would hold, and no cached block differs from
\* the device's content of its sector.
C17_Transparent ==
    (call.op \in {"BlockCache::read", "BlockCache::write"})
        => /\ call.res = "Ok"
           /\ call.op = "BlockCache::read" => call.out = direct[call.path]
           /\ \A s \in DOMAIN direct : s[1] = "DATA" => dev[s] = direct[s]
           /\ \A i \in 1..Len(cache) : cache[i].block = dev[cache[i].sector]

\* as long as every buffer written was a whole block, a read through the
\* cache returned the bytes written last, after the sector had been read,
\* written and read again
C17_WholeBlocks ==
    /\ call.op = "BlockCache::read" /\ call.res = "Ok" /\ call.out = Fill(BlockLen, NFills)
    /\ call.out = direct[call.path] /\ nops > 2
    /\ \A i \in 1..Len(cache) : cache[i].block = dev[cache[i].sector]

C19_DataNodeFile ==
    (call.op = "create" /\ call.res = "Ok")
        => /\ Len(call.log) >= 2
           /\ call.log[Len(call.log) - 1][1] = "NODE"
           /\ call.log[Len(call.log)][1] = "FILE"
           /\ Cardinality({i \in 1..Len(call.log) : call.log[i][1] = "DATA"})
                = div_ceil(Len(call.data), BlockLen)
           /\ \A i \in 1..Len(call.log) :
                 /\ call.log[i][1] = "DATA"
                       => /\ i < Len(call.log) - 1
                          /\ \E k \in 1..div_ceil(Len(call.data), BlockLen) :
                                dev[call.log[Len(call.log) - 1]].data_addrs[k] = call.log[i][2]
                 /\ call.log[i][1] \in {"NODE", "FILE"} => i >= Len(call.log) - 1

\* a create wrote two chunks, the second to a data sector other than 0 and
\* shorter than a block
C19_Witness ==
    /\ call.op = "create" /\ call.res = "Ok"
    /\ Len(call.data) > BlockLen /\ Len(call.data) % BlockLen # 0
    /\ call.log[Len(call.log) - 2][1] = "DATA" /\ call.log[Len(call.log) - 2][2] > 0
    /\ nops > 1

\* C20: within a delete the writes are, in this order, the erase of the
\* NODE sector, the erase of the FILE sector, the tree node with the slot
\* cleared, the tree and tree-bitmap writes of prune and, only after all
\* of those, the clearing of bits in DATA_BITMAP.
C20_DeleteOrder ==
    (call.op = "delete" /\ call.log # <<>>)
        => /\ call.log[1][1] = "NODE"
           /\ Len(call.log) >= 2 => call.log[2] = <<"FILE", call.log[1][2]>>
           /\ Len(call.log) >= 3 => call.log[3][1] = "TREE"
           /\ \A i \in 4..Len(call.log) : call.log[i][1] \in {"TREE", "TREE_BITMAP", "DATA_BITMAP"}
           /\ \A i, j \in 1..Len(call.log) :
                 (call.log[i][1] = "DATA_BITMAP" /\ call.log[j][1] # "DATA_BITMAP") => j < i
           /\ call.res = "Ok" => call.log[Len(call.log)][1] = "DATA_BITMAP"

\* a delete emptied a directory: prune wrote the tree bitmap and a tree
\* node, and the data bits were cleared after that
C20_Witness ==
    /\ call.op = "delete" /\ call.res = "Ok"
    /\ \E i, j, k \in 4..Len(call.log) :
          /\ i < k /\ j < k
          /\ call.log[i][1] = "TREE_BITMAP" /\ call.log[j][1] = "TREE"
          /\ call.log[k][1] = "DATA_BITMAP"
    /\ \E a \in 0..(N_FREE - 1) : dev[<<"DATA_BITMAP", a>>] # {}

\* C21: release_node_data of the Node of an existing file clears exactly
\* the data bitmap bits of the addresses in the first
\* ceil(file_len / BlockLen) slots of the Node and changes no other bit;
\* an unused slot, which holds zero, does not release address 0.
C21_ReleaseExact ==
    clean => \A q \in Existing : \A a \in 0..(N_FREE - 1) :
                release_node_data(Machine, NodeOf(q)).m.dev[<<"DATA_BITMAP", a>>]
                  = dev[<<"DATA_BITMAP", a>>]
                      \ {to_bitmap_offset(x) : x \in {y \in Held(NodeOf(q)) : to_bitmap_addr(y) = a}}

\* C22: in every state reached from format by creates and deletes, bit 0
\* of the tree bitmap is set and no directory entry of the tree refers to
\* tree node 0: the root node is neither handed out again nor released.
C22_RootReserved ==
    /\ 0 \in TreeBits
    /\ \A a \in 0..(N_TREE - 1) : \A i \in 1..LEN :
          (is_set(dev[TreeSector(a)][i]) /\ dev[TreeSector(a)][i].kind = "Dir")
              => dev[TreeSector(a)][i].addr # 0

\* a delete emptied the tree: prune released the directory's node, the
\* root is all that is left
C22_Witness ==
    /\ call.op = "delete" /\ call.res = "Ok" /\ TreeBits = {0} /\ nops > 2
    /\ \E i \in 1..Len(call.log) : call.log[i][1] = "TREE_BITMAP"
    /\ count_set(dev[TreeSector(0)]) = 0

\* C23: in every state reached by create, delete and open calls, the next
\* call returns the same result and leaves the same device contents
\* whether or not an unmount and a mount, which empty the cache and reset
\* the allocators' last_accessed, come before it.
C23_RemountSame ==
    mounted
        => \A p \in Paths :
              /\ \A d \in SmallPayloads :
                    /\ create(Machine, p, d).res
                         = create([Machine EXCEPT !.cache = <<>>, !.last = NoLast], p, d).res
                    /\ create(Machine, p, d).m.dev
                         = create([Machine EXCEPT !.cache = <<>>, !.last = NoLast], p, d).m.dev
              /\ delete(Machine, p).res
                   = delete([Machine EXCEPT !.cache = <<>>, !.last = NoLast], p).res
              /\ delete(Machine, p).m.dev
                   = delete([Machine EXCEPT !.cache = <<>>, !.last = NoLast], p).m.dev
              /\ open_read(Machine, p, OutLen).res
                   = open_read([Machine EXCEPT !.cache = <<>>, !.last = NoLast], p, OutLen).res
              /\ open_read(Machine, p, OutLen).out
                   = open_read([Machine EXCEPT !.cache = <<>>, !.last = NoLast], p, OutLen).out

\* C24: the data allocator returns StorageFull only once all N_DATA data
\* blocks are taken: the addresses taken before the call and the n it
\* asks for are more than N_DATA together.
C24_FullOnlyWhenAllTaken ==
    (call.op = "allocate_n" /\ call.res = "StorageFull")
        => (N_FREE * SLOTS - count_free(call.pre)) + call.n > N_DATA

\* C25: the regions META, TREE_BITMAP, DATA_BITMAP, TREE, FILE, NODE and
\* DATA lie in this order, each beginning where the one before it ends,
\* and the sector ranges of two different entries of the device, of one
\* region or of two, have no sector in common.
C25_Contiguous ==
    /\ Layout("META").begin = 0
    /\ Layout("META").end = Layout("TREE_BITMAP").begin
    /\ Layout("TREE_BITMAP").end = Layout("DATA_BITMAP").begin
    /\ Layout("DATA_BITMAP").end = Layout("TREE").begin
    /\ Layout("TREE").end = Layout("FILE").begin
    /\ Layout("FILE").end = Layout("NODE").begin
    /\ Layout("NODE").end = Layout("DATA").begin
    /\ \A r \in Regions : Layout(r).begin < Layout(r).end
    /\ \A s \in DOMAIN dev : \A t \in DOMAIN dev \ {s} :
          \/ nth(s[1], s[2]) + Layout(s[1]).blocks_per_entry <= nth(t[1], t[2])
          \/ nth(t[1], t[2]) + Layout(t[1]).blocks_per_entry <= nth(s[1], s[2])

\* a create on a formatted device wrote the second tree node, whose
\* sectors lie between those of the first tree node and the FILE region
C25_Witness ==
    /\ call.op = "create" /\ call.res = "Ok"
    /\ \E i \in 1..Len(call.log) :
          /\ call.log[i] = <<"TREE", 1>>
          /\ nth("TREE", 1) = nth("TREE", 0) + SERDE_BLOCK_COUNT
          /\ nth("TREE", 1) + SERDE_BLOCK_COUNT <= nth("FILE", 0)
    /\ SERDE_BLOCK_COUNT > 1

\* C26: on every tree node of the device, TreeNode::insert of a name of
\* valid length returns Ok with the new entry, which the node then holds,
\* while some slot is unset, and returns DirectoryFull and leaves the node
\* as it is once all LEN slots hold set entries.
C26_InsertFull ==
    \A a \in 0..(N_TREE - 1) : \A name \in 1..(LEN + 1) : \A kind \in {"File", "Dir"} :
        /\ count_set(dev[TreeSector(a)]) < LEN
              => /\ TreeNode_insert(dev[TreeSector(a)], name, a + 1, kind).res = "Ok"
                 /\ TreeNode_insert(dev[TreeSector(a)], name, a + 1, kind).entry
                      = Entry_new(name, a + 1, kind)
                 /\ \E i \in 1..LEN :
                       TreeNode_insert(dev[TreeSector(a)], name, a + 1, kind).tn[i]
                         = Entry_new(name, a + 1, kind)
                 /\ count_set(TreeNode_insert(dev[TreeSector(a)], name, a + 1, kind).tn)
                      = count_set(dev[TreeSector(a)]) + 1
        /\ count_set(dev[TreeSector(a)]) = LEN
              => /\ TreeNode_insert(dev[TreeSector(a)], name, a + 1, kind).res = "DirectoryFull"
                 /\ TreeNode_insert(dev[TreeSector(a)], name, a + 1, kind).tn = dev[TreeSector(a)]

\* creates filled every slot of a directory's tree node, and the create
\* after them was refused
C26_Witness ==
    /\ \E a \in 1..(N_TREE - 1) : count_set(dev[TreeSector(a)]) = LEN
    /\ call.op = "create" /\ call.res = "DirectoryFull"

\* C27: in every reachable state create, delete and open of a path that
\* starts or ends with a separator return what they return for the
\* normalized path and leave the same device contents, paths of a single
\* component included.
C27_NormSame ==
    mounted
        => \A p \in Paths :
              /\ \A d \in SmallPayloads :
                    /\ create(Machine, p, d).res = create(Machine, norm(p), d).res
                    /\ create(Machine, p, d).m.dev = create(Machine, norm(p), d).m.dev
              /\ delete(Machine, p).res = delete(Machine, norm(p)).res
              /\ delete(Machine, p).m.dev = delete(Machine, norm(p)).m.dev
              /\ open_read(Machine, p, OutLen).res = open_read(Machine, norm(p), OutLen).res
              /\ open_read(Machine, p, OutLen).out = open_read(Machine, norm(p), OutLen).out

\* C28 (Bitmap): serialize writes exactly SERDE_LEN = Block::LEN bytes, and
\* deserializing them gives back a Bitmap equal to the one serialized, where
\* equality is the derived one, over inner and last_free.
C28_SerdeSymmetry ==
    /\ Len(Bitmap_serialize(bitmap)) = BlockLen
    /\ Bitmap_deserialize(Bitmap_serialize(bitmap)) = bitmap

\* C29: a create or a delete of a file q leaves what open(p) reads unchanged
\* for every other existing file p: the result, the length and the bytes
\* are those read before the call, also for p and q of one directory.
C29_OthersUnchanged ==
    mounted
        => \A p \in Existing : \A q \in {x \in Paths : ~x.raw /\ x.comps # p} :
              /\ \A d \in Payloads :
                    create(Machine, q, d).res # "Panic"
                        => LET after == open_read(create(Machine, q, d).m, Path(p), OutLen)
                           IN  /\ after.res = open_read(Machine, Path(p), OutLen).res
                               /\ after.file_len = open_read(Machine, Path(p), OutLen).file_len
                               /\ after.out = open_read(Machine, Path(p), OutLen).out
              /\ delete(Machine, q).res # "Panic"
                    => LET after == open_read(delete(Machine, q).m, Path(p), OutLen)
                       IN  /\ after.res = open_read(Machine, Path(p), OutLen).res
                           /\ after.file_len = open_read(Machine, Path(p), OutLen).file_len
                           /\ after.out = open_read(Machine, Path(p), OutLen).out

\* C30: delete and open of a path that resolves to a Dir-kind entry return
\* an error, and the delete leaves every sector of the device as it was:
\* no FILE or NODE sector erased, no tree entry cleared, no bit released.
C30_DirRefused ==
    mounted
        => \A p \in {x \in Paths : ~x.raw} :
              (get_file(Machine, p).res = "Ok" /\ get_file(Machine, p).entry.kind = "Dir")
                  => /\ delete(Machine, p).res \notin {"Ok", "Panic"}
                     /\ delete(Machine, p).m.dev = dev
                     /\ open_read(Machine, p, OutLen).res \notin {"Ok", "Panic"}

\* C31: when create(p, d) returns an error for a path p that did not
\* resolve before (StorageFull from the data allocator after the directory
\* entry was inserted, in particular), then afterwards p still does not
\* resolve, count_files is what it was, and a later create(p, d') is not
\* refused with FileAlreadyExists.
C31_FailedCreateLeavesNoEntry ==
    mounted
        => \A p \in {x \in Paths : ~x.raw} : \A d \in Payloads :
              (/\ get_file(Machine, p).res = "FileNotFound"
               /\ create(Machine, p, d).res \notin {"Ok", "Panic"})
                  => /\ open_read(create(Machine, p, d).m, p, OutLen).res = "FileNotFound"
                     /\ count_files(create(Machine, p, d).m).count = count_files(Machine).count
                     /\ create(create(Machine, p, d).m, p, <<>>).res # "FileAlreadyExists"

\* C32: an insert into a tree node that returns Ok keeps every entry of the
\* node that carries a non-empty name, for the tree nodes of every
\* reachable state and for two inserts of new names one after the other:
\* the slot of a file created in the root directory is not taken again.
C32_InsertKeepsNamed ==
    \A a \in 0..(N_TREE - 1) : \A n1 \in (NNames + 1)..(NNames + 2) :
        LET first == TreeNode_insert(dev[TreeSector(a)], n1, a + 1, "Dir")
            second == TreeNode_insert(first.tn, (2 * NNames + 3) - n1, a + 1, "Dir")
        IN  /\ first.res = "Ok"
                  => \A i \in 1..LEN :
                        dev[TreeSector(a)][i].name # EmptyName
                            => \E j \in 1..LEN : first.tn[j] = dev[TreeSector(a)][i]
            /\ (first.res = "Ok" /\ second.res = "Ok")
                  => \A i \in 1..LEN :
                        first.tn[i].name # EmptyName
                            => \E j \in 1..LEN : second.tn[j] = first.tn[i]

\* C33: in every reachable state the address the tree allocator returns
\* next is below N_TREE and the one the data allocator returns next is
\* below N_DATA, and a create that needs a tree node for a new directory
\* below an existing one never fails otherwise than with an error: with
\* the TREE region used up it returns StorageFull.
C33_InRange ==
    mounted
        => /\ allocate(Machine, "TREE_BITMAP").res = "Ok"
                 => allocate(Machine, "TREE_BITMAP").addr < N_TREE
           /\ allocate(Machine, "DATA_BITMAP").res = "Ok"
                 => allocate(Machine, "DATA_BITMAP").addr < N_DATA
           /\ create(Machine, Path(<<1, NNames + 1, 1>>), <<>>).res # "Panic"
           /\ (\A a \in 0..(N_TREE - 1) : a \in TreeBits)
                 => create(Machine, Path(<<1, NNames + 1, 1>>), <<>>).res # "Ok"

\* C34: delete and open of the empty path, "" or "/", return an error in
\* every reachable state, and the delete leaves every sector of the
\* device as it was. The path "" has the single component "", the empty
\* name; "/" is the same with a separator to trim.
C34_EmptyPathRefused ==
    mounted
        => \A p \in {Path(<<EmptyName>>), [raw |-> TRUE, comps |-> <<EmptyName>>]} :
              /\ delete(Machine, p).res \notin {"Ok", "Panic"}
              /\ delete(Machine, p).m.dev = dev
              /\ open_read(Machine, p, OutLen).res \notin {"Ok", "Panic"}

\* C35: in every reachable state of the data allocator every bitmap sector
\* before last_accessed is full; allocate returns StorageFull only when no
\* bit of any bitmap sector is clear, and otherwise it returns the lowest
\* free address of the whole pool and sets the bit of that address and no
\* other.
C35_LowestFree ==
    mounted
        => /\ \A s \in 0..(last["DATA_BITMAP"] - 1) :
                  dev[<<"DATA_BITMAP", s>>] = 0..(SLOTS - 1)
           /\ allocate(Machine, "DATA_BITMAP").res \in {"Ok", "StorageFull"}
           /\ allocate(Machine, "DATA_BITMAP").res = "StorageFull"
                 => \A s \in 0..(N_FREE - 1) : dev[<<"DATA_BITMAP", s>>] = 0..(SLOTS - 1)
           /\ allocate(Machine, "DATA_BITMAP").res = "Ok"
                 => LET addr == allocate(Machine, "DATA_BITMAP").addr
                    IN  /\ to_bitmap_offset(addr) \notin dev[<<"DATA_BITMAP", to_bitmap_addr(addr)>>]
                        /\ \A x \in 0..(addr - 1) :
                              to_bitmap_offset(x) \in dev[<<"DATA_BITMAP", to_bitmap_addr(x)>>]
                        /\ \A s \in 0..(N_FREE - 1) :
                              allocate(Machine, "DATA_BITMAP").m.dev[<<"DATA_BITMAP", s>>]
                                = dev[<<"DATA_BITMAP", s>>]
                                    \cup (IF s = to_bitmap_addr(addr)
                                          THEN {to_bitmap_offset(addr)} ELSE {})

\* a release below last_accessed lowered it, with free addresses left in a
\* later bitmap sector
C35_Witness ==
    /\ mounted /\ call.op = "release" /\ call.res = "Ok"
    /\ last["DATA_BITMAP"] = to_bitmap_addr(call.n)
    /\ to_bitmap_offset(call.n) \notin dev[<<"DATA_BITMAP", to_bitmap_addr(call.n)>>]
    /\ nops > 1
    /\ \E s \in (last["DATA_BITMAP"] + 1)..(N_FREE - 1) :
          dev[<<"DATA_BITMAP", s>>] # 0..(SLOTS - 1)
    /\ allocate(Machine, "DATA_BITMAP").addr = call.n

\* C36: in every state that allocate and release reach from a new Bitmap,
\* every byte before last_free is full; allocate returns None only when
\* every bit is set, and otherwise it returns the lowest free address of
\* the bitmap, sets the bit of that address and no other, and leaves
\* last_free at the index of the byte it changed.
C36_LastFreeSound ==
    /\ \A p \in 1..bitmap.last_free : bitmap.inner[p] = 2 ^ BITS - 1
    /\ Bitmap_allocate_from(bitmap, 0).res = "None"
          => \A p \in 1..BlockLen : bitmap.inner[p] = 2 ^ BITS - 1
    /\ Bitmap_allocate_from(bitmap, 0).res = "Some"
          => LET addr == Bitmap_allocate_from(bitmap, 0).addr
             IN  /\ addr \in 0..(BITS * BlockLen - 1)
                 /\ (bitmap.inner[(addr \div BITS) + 1] \div 2 ^ (addr % BITS)) % 2 = 0
                 /\ \A x \in 0..(addr - 1) :
                       (bitmap.inner[(x \div BITS) + 1] \div 2 ^ (x % BITS)) % 2 = 1
                 /\ Bitmap_allocate_from(bitmap, 0).b.last_free = addr \div BITS
                 /\ Bitmap_allocate_from(bitmap, 0).b.inner
                      = [bitmap.inner EXCEPT ![(addr \div BITS) + 1] = @ + 2 ^ (addr % BITS)]

\* an allocate returned an address of the first byte again, after
\* allocations had reached the second byte and a release lowered last_free
C36_Witness ==
    /\ call.op = "Bitmap::allocate" /\ call.res = "Some"
    /\ call.n < BITS
    /\ bitmap.last_free = 0
    /\ bitmap.inner[2] # 0

\* C37: in every state reachable from format by create and delete the
\* number of set bits of TREE_BITMAP is 1 + count_dirs: every allocated
\* tree address but the root is the addr of exactly one set Dir-kind entry
\* of a tree node reachable from the root, and every such entry points at
\* an allocated address.
C37_TreeBitsAreDirs ==
    mounted
        => LET level1 == {dev[TreeSector(0)][i].addr : i \in
                             {j \in 1..LEN : /\ is_set(dev[TreeSector(0)][j])
                                             /\ is_dir(dev[TreeSector(0)][j])}}
               reach == {0} \cup level1
                            \cup UNION {{dev[TreeSector(b)][i].addr : i \in
                                            {j \in 1..LEN : /\ is_set(dev[TreeSector(b)][j])
                                                            /\ is_dir(dev[TreeSector(b)][j])}}
                                        : b \in level1 \cap (0..(N_TREE - 1))}
               refs(a) == {<<b, i>> \in (reach \cap (0..(N_TREE - 1))) \X (1..LEN) :
                              /\ is_set(dev[TreeSector(b)][i])
                              /\ is_dir(dev[TreeSector(b)][i])
                              /\ dev[TreeSector(b)][i].addr = a}
           IN  /\ Cardinality(TreeBits) = 1 + count_dirs(Machine).count
               /\ \A a \in TreeBits \ {0} : Cardinality(refs(a)) = 1
               /\ \A a \in 0..(SLOTS - 1) : refs(a) # {} => a \in TreeBits

\* C38: a write of a chunk shorter than a block, the last chunk of a
\* payload, to a data sector that the cache holds completes without a
\* failure, and afterwards every cached block equals the device's content
\* of its sector.
C38_ShortWriteCached ==
    mounted
        => \A i \in 1..Len(cache) : \A len \in 1..(BlockLen - 1) :
              cache[i].sector[1] = "DATA"
                  => /\ ~Cache_write_short(Machine, cache[i].sector, Fill(len, NFills)).panic
                     /\ \A j \in 1..Len(cache) :
                           Cache_write_short(Machine, cache[i].sector,
                                             Fill(len, NFills)).m.cache[j].block
                             = Cache_write_short(Machine, cache[i].sector, Fill(len, NFills)).m.dev[
                                   Cache_write_short(Machine, cache[i].sector,
                                                     Fill(len, NFills)).m.cache[j].sector]

\* BlockCache::read of the data sectors of a set of addresses, in ascending
\* order: the machine after the reads
RECURSIVE ReadAscending(_, _)
ReadAscending(m, addrs) ==
    IF addrs = {} THEN m
    ELSE LET a == CHOOSE x \in addrs : \A y \in addrs : x <= y
         IN  ReadAscending(Cache_touch(m, <<"DATA", a>>), addrs \ {a})

\* C39: the cache holds the most recently accessed distinct sectors, as
\* many as it has entries: from every reachable state, after reads of
\* SIZE distinct data sectors, a second read of the first of them and the
\* read of one more sector, the sectors cached are the SIZE read last,
\* which leaves out the second of them, the least recently used one.
C39_MostRecent ==
    mounted
        => \A first \in 0..SIZE : \A other \in (0..SIZE) \ {first} :
              LET rest == (0..SIZE) \ {first, other}
                  lru == CHOOSE x \in rest : \A y \in rest : x <= y
                  filled == ReadAscending(Cache_touch(Machine, <<"DATA", first>>), rest)
                  after == Cache_touch(Cache_touch(filled, <<"DATA", first>>),
                                       <<"DATA", other>>)
              IN  {after.cache[i].sector : i \in 1..Len(after.cache)}
                     = {<<"DATA", a>> : a \in (0..SIZE) \ {lru}}

\* C40: allocate_node_data(size), for every size up to MAX_FILE_SIZE and
\* in every reachable state, returns Ok when ceil(size / BlockLen) data
\* addresses are free and then a Node with file_len = size whose first
\* ceil(size / BlockLen) addresses are distinct and were free before the
\* call and whose other slots are 0; the bits it sets in DATA_BITMAP are
\* those of these addresses and no other, none for size 0.
C40_NodeData ==
    mounted
        => \A size \in 0..MAX_FILE_SIZE :
              LET n == div_ceil(size, BlockLen)
                  r == allocate_node_data(Machine, size)
                  taken(d, x) == to_bitmap_offset(x) \in d[<<"DATA_BITMAP", to_bitmap_addr(x)>>]
              IN  /\ r.res \in {"Ok", "StorageFull"}
                  /\ count_free(DataBits) >= n => r.res = "Ok"
                  /\ r.res = "Ok"
                        => /\ r.node.file_len = size
                           /\ \A i \in 1..n : \A j \in 1..n :
                                 i # j => r.node.data_addrs[i] # r.node.data_addrs[j]
                           /\ \A i \in 1..n : ~taken(dev, r.node.data_addrs[i])
                           /\ \A i \in (n + 1)..BLOCKS : r.node.data_addrs[i] = 0
                           /\ \A x \in 0..(N_FREE * SLOTS - 1) :
                                 taken(r.m.dev, x)
                                   <=> \/ taken(dev, x)
                                       \/ \E i \in 1..n : r.node.data_addrs[i] = x

\* a create of a payload of BLOCKS whole blocks returned Ok on a disk that
\* held data already: its Node lists BLOCKS distinct addresses and the
\* data bitmap has BLOCKS free addresses fewer than before the call
C40_Witness ==
    /\ call.op = "create" /\ call.res = "Ok" /\ Len(call.data) = MAX_FILE_SIZE
    /\ nops > 1
    /\ count_free(call.pre.dbits) < N_FREE * SLOTS
    /\ count_free(DataBits) = count_free(call.pre.dbits) - BLOCKS
    /\ NodeOf(call.path).file_len = MAX_FILE_SIZE
    /\ Cardinality({NodeOf(call.path).data_addrs[i] : i \in 1..BLOCKS}) = BLOCKS

====
